---- MODULE Spec2Model ----
(***************************************************************************)
(* Chaos-monkey runner: the command selection engine (chaos_monkey.py),    *)
(* the workspace lock, the timed run loop and the cooperative cancellation *)
(* flag (runner.py).                                                       *)
(***************************************************************************)
EXTENDS Integers, Sequences, FiniteSets, TLC

VARIABLES
    cm_chaos,        \* ChaosMonkey.chaos of an engine driven by direct calls
    call,            \* the call in progress on that engine (op, arguments, chaos before)
    lock_exists,     \* <workspace>/chaos_runner.lock exists
    lock_content,    \* its content: the pid written, 0 while still empty
    isdir,           \* os.path.isdir(workspace)
    now,             \* time()
    pc,              \* per runner process: position in __main__
    dry_run,         \* Runner.dry_run
    run_once,        \* args.run_once
    request,         \* args.include_group .. args.exclude_command
    run_timeout,     \* args.total_timeout
    stop_chaos,      \* Runner.stop_chaos
    mid_action,      \* a signal reached the process inside run_random_chaos
    workspace_lock,  \* Runner.workspace_lock
    chaos,           \* Runner.chaos_monkey.chaos
    expire_time,     \* expire_time of random_chaos
    enabled,         \* the chaos action the process has enabled and not disabled
    applications,    \* number of action applications begun by run_random_chaos
    shutdown_called, \* chaos_monkey.shutdown() was invoked
    raised,          \* the exception the process raised, "none" if none
    exit_code,       \* the status the process exits with
    argv,            \* the command line given to parse_args
    args             \* what parse_args made of it

engine_vars == <<cm_chaos, call>>
runner_vars == <<lock_exists, lock_content, isdir, now, pc, dry_run, run_once,
                 request, run_timeout, stop_chaos, mid_action, workspace_lock,
                 chaos, expire_time, enabled, applications, shutdown_called, raised,
                 exit_code, argv, args>>
vars == <<cm_chaos, call, lock_exists, lock_content, isdir, now, pc, dry_run,
          run_once, request, run_timeout, stop_chaos, mid_action, workspace_lock,
          chaos, expire_time, enabled, applications, shutdown_called, raised, exit_code,
          argv, args>>

(***************************************************************************)
(* Bounds                                                                  *)
(***************************************************************************)
MaxNames == 2
MaxChaosLen == 3
NumRunners == 2
MaxTimeout == 2
MaxApplications == 2

(***************************************************************************)
(* Exit statuses of runner.py                                              *)
(***************************************************************************)
\* sys.exit(-1) of acquire_lock when the workspace is not a directory.
NotADirectoryStatus == -1
\* sys.exit(-1) of acquire_lock when os.open fails.
LockConflictStatus == -1
\* sys.exit(1) of the except clause of __main__.
FailureStatus == 1

(***************************************************************************)
(* The registry of chaos actions and the selection engine                  *)
(***************************************************************************)
\* get_all_chaos: the catalog assembled from the action families, in order.
Registry ==
    << [command_str |-> "deny-all",      group |-> "net"],
       [command_str |-> "deny-incoming", group |-> "net"],
       [command_str |-> "jujud",         group |-> "kill"] >>

Range(s) == {s[i] : i \in DOMAIN s}

\* The string 'all' (a Python str is the sequence of its characters).
STR_ALL == <<"a", "l", "l">>

get_all_groups == {Registry[i].group : i \in DOMAIN Registry}

get_all_commands == {Registry[i].command_str : i \in DOMAIN Registry}

RECURSIVE get_groups(_, _)
get_groups(groups, all_chaos) ==
    IF groups = <<>> THEN <<>>
    ELSE LET group == Head(groups)
         IN  SelectSeq(all_chaos, LAMBDA c : c.group = group)
                 \o get_groups(Tail(groups), all_chaos)

\* list.remove(x): drops the first element equal to x; ValueError when absent.
RECURSIVE ListRemove(_, _)
ListRemove(list, x) ==
    IF list = <<>> THEN <<>>
    ELSE IF Head(list) = x THEN Tail(list)
    ELSE <<Head(list)>> \o ListRemove(Tail(list), x)

\* for x in items: chaos.remove(x)  -- stops at the first ValueError.
RECURSIVE RemoveEach(_, _)
RemoveEach(list, items) ==
    IF items = <<>> THEN [chaos |-> list, raised |-> FALSE]
    ELSE IF Head(items) \notin Range(list) THEN [chaos |-> list, raised |-> TRUE]
    ELSE RemoveEach(ListRemove(list, Head(items)), Tail(items))

_find_command(list, command_str) ==
    \E i \in DOMAIN list : list[i].command_str = command_str

\* include_group without the special case of 'all'.
include_group_no_all(self_chaos, groups) ==
    IF groups = <<>> THEN self_chaos
    ELSE get_groups(groups, Registry)

include_group(self_chaos, groups) ==
    IF groups = <<>> THEN self_chaos
    ELSE IF groups = STR_ALL THEN Registry
    ELSE get_groups(groups, Registry)

exclude_group(self_chaos, groups) ==
    RemoveEach(self_chaos, get_groups(groups, self_chaos))

\* for cmd in included_commands: if cmd is not found: extend by the whole batch
RECURSIVE IncludeLoop(_, _, _)
IncludeLoop(self_chaos, todo, included_commands) ==
    IF todo = <<>> THEN self_chaos
    ELSE IF _find_command(self_chaos, Head(todo).command_str)
         THEN IncludeLoop(self_chaos, Tail(todo), included_commands)
         ELSE IncludeLoop(self_chaos \o included_commands, Tail(todo),
                          included_commands)

include_command(self_chaos, commands) ==
    LET included_commands ==
            SelectSeq(Registry, LAMBDA x : x.command_str \in Range(commands))
    IN  IncludeLoop(self_chaos, included_commands, included_commands)

exclude_command(self_chaos, commands) ==
    RemoveEach(self_chaos,
               SelectSeq(self_chaos, LAMBDA x : x.command_str \in Range(commands)))

reset_command_selection(self_chaos) == <<>>

\* utility.split_arg_string: the names of a comma-separated filter string.
split_arg_string(arg_string) == SelectSeq(arg_string, LAMBDA t : t # ",")

\* A validation that lets every name through.
_validate_unchecked(sub_string, all_list) ==
    [list |-> split_arg_string(sub_string), raised |-> FALSE]

\* Runner._validate: the split list, or BadRequest at the first unknown name.
_validate(sub_string, all_list) ==
    LET sub_list == split_arg_string(sub_string)
    IN  [list   |-> sub_list,
         raised |-> \E i \in DOMAIN sub_list : sub_list[i] \notin all_list]

\* Runner.filter_commands, statement by statement; an exception ends it with
\* the ActiveSet as the statements before it left it.
filter_commands(self_chaos, req) ==
    LET all_groups   == get_all_groups
        all_commands == get_all_commands
        Raise(c, e)  == [chaos |-> c, raised |-> e]
        c0  == IF req.include_group = <<>> /\ req.include_command = <<>>
               THEN include_group(self_chaos, STR_ALL)
               ELSE self_chaos
        vig == _validate(req.include_group, all_groups)
        c1  == IF req.include_group # <<>>
               THEN include_group(c0, vig.list) ELSE c0
        veg == _validate(req.exclude_group, all_groups)
        r2  == IF req.exclude_group # <<>>
               THEN exclude_group(c1, veg.list)
               ELSE [chaos |-> c1, raised |-> FALSE]
        c2  == r2.chaos
        vic == _validate(req.include_command, all_commands)
        c3  == IF req.include_command # <<>>
               THEN include_command(c2, vic.list) ELSE c2
        vec == _validate(req.exclude_command, all_commands)
        r4  == IF req.exclude_command # <<>>
               THEN exclude_command(c3, vec.list)
               ELSE [chaos |-> c3, raised |-> FALSE]
    IN  IF req.include_group # <<>> /\ vig.raised THEN Raise(c0, "BadRequest")
        ELSE IF req.exclude_group # <<>> /\ veg.raised THEN Raise(c1, "BadRequest")
        ELSE IF r2.raised THEN Raise(c2, "ValueError")
        ELSE IF req.include_command # <<>> /\ vic.raised THEN Raise(c2, "BadRequest")
        ELSE IF req.exclude_command # <<>> /\ vec.raised THEN Raise(c3, "BadRequest")
        ELSE IF r4.raised THEN Raise(r4.chaos, "ValueError")
        ELSE Raise(r4.chaos, "none")

(***************************************************************************)
(* Inputs: filter strings and filter requests                              *)
(***************************************************************************)
\* Names given on a command line: the registry's, and one that names nothing.
GroupTokens == <<"net", "kill", "bogus">>
CommandTokens == <<"deny-all", "jujud", "bogus">>

\* Names a direct caller of the engine gives: the registry's.
GroupNames == <<"net", "kill">>
CommandNames == <<"deny-all", "deny-incoming", "jujud">>

RECURSIVE Pick(_, _)
\* The elements of tokens at the indices in idx, in order.
Pick(tokens, idx) ==
    IF tokens = <<>> THEN <<>>
    ELSE LET n == Len(tokens)
             rest == Pick(SubSeq(tokens, 1, n - 1), idx)
         IN  IF n \in idx THEN Append(rest, tokens[n]) ELSE rest

\* Lists of at most MaxNames distinct names.
NameLists(tokens) ==
    {Pick(tokens, idx) : idx \in {I \in SUBSET DOMAIN tokens : Cardinality(I) <= MaxNames}}

RECURSIVE JoinCommas(_)
\* ",".join(names)
JoinCommas(names) ==
    IF Len(names) <= 1 THEN names
    ELSE <<Head(names), ",">> \o JoinCommas(Tail(names))

FilterStrings(tokens) == {JoinCommas(l) : l \in NameLists(tokens)}

Requests ==
    [include_group   : FilterStrings(GroupTokens) \cup {<<"all">>},
     exclude_group   : FilterStrings(GroupTokens),
     include_command : FilterStrings(CommandTokens),
     exclude_command : FilterStrings(CommandTokens)]

NoFilter == [include_group |-> <<>>, exclude_group |-> <<>>,
             include_command |-> <<>>, exclude_command |-> <<>>]

ChaosLists == UNION {[1..n -> Range(Registry)] : n \in 0..MaxChaosLen}

(***************************************************************************)
(* The selection engine under direct calls                                 *)
(***************************************************************************)
NoCall == [op |-> "none"]

Returned == call = NoCall

\* A call ends; its result is cm_chaos.
Return ==
    /\ call # NoCall
    /\ call' = NoCall
    /\ UNCHANGED cm_chaos
    /\ UNCHANGED runner_vars

CallIncludeGroup(groups) ==
    /\ Returned
    /\ cm_chaos' = include_group(cm_chaos, groups)
    /\ call' = [op |-> "include_group", args |-> groups, before |-> cm_chaos,
                raised |-> "none"]
    /\ UNCHANGED runner_vars

CallExcludeGroup(groups) ==
    /\ Returned
    /\ LET r == exclude_group(cm_chaos, groups)
       IN  /\ cm_chaos' = r.chaos
           /\ call' = [op |-> "exclude_group", args |-> groups, before |-> cm_chaos,
                       raised |-> IF r.raised THEN "ValueError" ELSE "none"]
    /\ UNCHANGED runner_vars

CallIncludeCommand(commands) ==
    /\ Returned
    /\ Len(include_command(cm_chaos, commands)) <= MaxChaosLen
    /\ cm_chaos' = include_command(cm_chaos, commands)
    /\ call' = [op |-> "include_command", args |-> commands, before |-> cm_chaos,
                raised |-> "none"]
    /\ UNCHANGED runner_vars

CallExcludeCommand(commands) ==
    /\ Returned
    /\ LET r == exclude_command(cm_chaos, commands)
       IN  /\ cm_chaos' = r.chaos
           /\ call' = [op |-> "exclude_command", args |-> commands, before |-> cm_chaos,
                       raised |-> IF r.raised THEN "ValueError" ELSE "none"]
    /\ UNCHANGED runner_vars

CallReset ==
    /\ Returned
    /\ cm_chaos' = reset_command_selection(cm_chaos)
    /\ call' = [op |-> "reset_command_selection", args |-> <<>>, before |-> cm_chaos,
                raised |-> "none"]
    /\ UNCHANGED runner_vars

CallFilterCommands(req) ==
    /\ Returned
    /\ LET r == filter_commands(cm_chaos, req)
       IN  /\ Len(r.chaos) <= MaxChaosLen
           /\ cm_chaos' = r.chaos
           /\ call' = [op |-> "filter_commands", args |-> req, before |-> cm_chaos,
                       raised |-> r.raised]
    /\ UNCHANGED runner_vars

NextEngine ==
    \/ Returned /\ \E groups \in NameLists(GroupNames) \cup {STR_ALL} :
                      CallIncludeGroup(groups)
    \/ Returned /\ \E groups \in NameLists(GroupNames) : CallExcludeGroup(groups)
    \/ Returned /\ \E commands \in NameLists(CommandNames) :
                      CallIncludeCommand(commands)
    \/ Returned /\ \E commands \in NameLists(CommandNames) :
                      CallExcludeCommand(commands)
    \/ CallReset
    \/ Returned /\ \E req \in Requests : CallFilterCommands(req)
    \/ Return

(***************************************************************************)
(* Runner processes on one workspace (__main__ of runner.py)               *)
(***************************************************************************)
Runners == 1..NumRunners

NoAction == [command_str |-> "none", group |-> "none"]

\* One-shot actions have run() and no enable()/disable().
OneShot(c) == c.group = "kill"

\* The filter requests given on the command line of the runner under study.
RunRequests ==
    { NoFilter,
      [NoFilter EXCEPT !.include_group = <<"net">>],
      [NoFilter EXCEPT !.exclude_group = <<"net", ",", "kill">>],
      [NoFilter EXCEPT !.include_group = <<"bogus">>],
      [NoFilter EXCEPT !.exclude_command = <<"jujud", ",", "bogus">>] }

\* The options of a runner started with no option on its command line.
DefaultOptions ==
    {[dry_run |-> FALSE, run_once |-> FALSE, request |-> NoFilter,
      run_timeout |-> 1]}

\* The options of a runner started with --run-once alone.
RunOnceOptions ==
    {[dry_run |-> FALSE, run_once |-> TRUE, request |-> NoFilter,
      run_timeout |-> 1]}

\* Every combination of options parse_args lets through.
AllOptions ==
    [dry_run : BOOLEAN, run_once : BOOLEAN, request : RunRequests,
     run_timeout : 1..MaxTimeout]

(***************************************************************************)
(* The command line (parse_args of runner.py)                              *)
(***************************************************************************)
\* A timeout option is None when not given, <<n>> when given as n.
None == <<>>

\* Python truth of an optional int: None and 0 are false.
Truthy(x) == x # None /\ x # <<0>>

\* default=10 of --enablement-timeout.
DefaultEnablementTimeout == 10

Timeouts == -1..MaxTimeout

OptionalTimeouts == {None} \cup {<<n>> : n \in Timeouts}

Argvs ==
    [total_timeout : OptionalTimeouts, enablement_timeout : OptionalTimeouts,
     run_once : BOOLEAN, dry_run : BOOLEAN]

NoArgv == [total_timeout |-> None, enablement_timeout |-> None,
           run_once |-> FALSE, dry_run |-> FALSE]

NotParsed == [status |-> "not parsed"]

\* parser.error(...): the usage message, and the process ends.
UsageError == [status |-> "usage error"]

\* parse_args: the checks after parser.parse_args(argv), in their order.
parse_args(a) ==
    LET enablement_timeout ==
            IF a.enablement_timeout = None THEN DefaultEnablementTimeout
            ELSE a.enablement_timeout[1]
        total_timeout ==
            IF ~Truthy(a.total_timeout) THEN enablement_timeout
            ELSE a.total_timeout[1]
    IN  IF a.run_once /\ Truthy(a.total_timeout) THEN UsageError
        ELSE IF enablement_timeout > total_timeout THEN UsageError
        ELSE IF total_timeout <= 0 THEN UsageError
        ELSE IF enablement_timeout < 0 THEN UsageError
        ELSE [status |-> "parsed", total_timeout |-> total_timeout,
              enablement_timeout |-> enablement_timeout,
              run_once |-> a.run_once, dry_run |-> a.dry_run]

\* __main__: args = parse_args().
ParseArgs ==
    /\ args = NotParsed
    /\ args' = parse_args(argv)
    /\ UNCHANGED <<engine_vars, isdir, dry_run, run_once, request, run_timeout, argv,
                   lock_exists, lock_content, now, pc, stop_chaos, mid_action,
                   workspace_lock, chaos, expire_time, enabled, applications,
                   shutdown_called, raised, exit_code>>

\* No command line is under study.
NoCommandLine == argv = NoArgv /\ args = NotParsed

InitEngine ==
    /\ cm_chaos = <<>>
    /\ call = NoCall

InitRunners(options, started) ==
    /\ lock_exists = FALSE
    /\ lock_content = 0
    /\ isdir \in BOOLEAN
    /\ now = 0
    /\ pc = [p \in Runners |-> IF p \in started THEN "acquire_lock"
                                              ELSE "not_started"]
    /\ \E o \in [Runners -> options \cup DefaultOptions] :
          /\ \A p \in Runners :
                o[p] \in IF p \in started THEN options ELSE DefaultOptions
          /\ dry_run = [p \in Runners |-> o[p].dry_run]
          /\ run_once = [p \in Runners |-> o[p].run_once]
          /\ request = [p \in Runners |-> o[p].request]
          /\ run_timeout = [p \in Runners |-> o[p].run_timeout]
    /\ stop_chaos = [p \in Runners |-> FALSE]
    /\ mid_action = [p \in Runners |-> FALSE]
    /\ workspace_lock = [p \in Runners |-> FALSE]
    /\ chaos = [p \in Runners |-> <<>>]
    /\ expire_time = [p \in Runners |-> 0]
    /\ enabled = [p \in Runners |-> NoAction]
    /\ applications = [p \in Runners |-> 0]
    /\ shutdown_called = [p \in Runners |-> FALSE]
    /\ raised = [p \in Runners |-> "none"]
    /\ exit_code = [p \in Runners |-> 0]

\* One runner on the workspace, started with any options.
Init == InitEngine /\ InitRunners(AllOptions, {1}) /\ NoCommandLine

\* Every runner started on the same workspace, each with --run-once.
InitWorkspace == InitEngine /\ InitRunners(RunOnceOptions, Runners) /\ NoCommandLine

\* The engine alone: no runner is started.
InitSelection == InitEngine /\ InitRunners(DefaultOptions, {}) /\ isdir /\ NoCommandLine

\* A first and a second runner started on the same workspace with --run-once.
InitRelease == InitEngine /\ InitRunners(RunOnceOptions, {1, 2}) /\ NoCommandLine

\* parse_args alone, on any command line; no runner is started.
InitArgs ==
    /\ InitEngine
    /\ InitRunners(DefaultOptions, {})
    /\ isdir
    /\ argv \in Argvs
    /\ args = NotParsed

inputs == <<isdir, dry_run, run_once, request, run_timeout, argv, args>>

\* An exit that passes through the finally clause of __main__.
ExitThroughFinally(p, code) ==
    /\ pc' = [pc EXCEPT ![p] = "finally"]
    /\ exit_code' = [exit_code EXCEPT ![p] = code]

\* sys.exit(code) outside the try statement, or an exception nothing catches.
Exit(p, code) ==
    /\ pc' = [pc EXCEPT ![p] = "done"]
    /\ exit_code' = [exit_code EXCEPT ![p] = code]

\* acquire_lock: the workspace must be a directory.
CheckDir(p) ==
    /\ pc[p] = "acquire_lock"
    /\ IF ~isdir
       THEN Exit(p, NotADirectoryStatus)
       ELSE /\ pc' = [pc EXCEPT ![p] = "open"]
            /\ UNCHANGED exit_code
    /\ UNCHANGED <<engine_vars, inputs, lock_exists, lock_content, now, stop_chaos, mid_action,
                   workspace_lock, chaos, expire_time, enabled, applications,
                   shutdown_called, raised>>

\* os.open without O_EXCL: an existing lock file is opened and truncated.
OpenLockNoExcl(p) ==
    /\ pc[p] = "open"
    /\ lock_exists' = TRUE
    /\ lock_content' = 0
    /\ pc' = [pc EXCEPT ![p] = "write"]
    /\ UNCHANGED <<engine_vars, inputs, now, stop_chaos, mid_action, workspace_lock, chaos,
                   expire_time, enabled, applications, shutdown_called, raised,
                   exit_code>>

\* acquire_lock: os.open(lock_file, O_CREAT | O_EXCL | O_WRONLY).
OpenLock(p) ==
    /\ pc[p] = "open"
    /\ IF lock_exists
       THEN /\ Exit(p, LockConflictStatus)
            /\ UNCHANGED <<lock_exists, lock_content>>
       ELSE /\ lock_exists' = TRUE
            /\ lock_content' = 0
            /\ pc' = [pc EXCEPT ![p] = "write"]
            /\ UNCHANGED exit_code
    /\ UNCHANGED <<engine_vars, inputs, now, stop_chaos, mid_action, workspace_lock, chaos,
                   expire_time, enabled, applications, shutdown_called, raised>>

\* acquire_lock: write the pid, close, workspace_lock = True.
WritePid(p) ==
    /\ pc[p] = "write"
    /\ lock_content' = p
    /\ workspace_lock' = [workspace_lock EXCEPT ![p] = TRUE]
    /\ pc' = [pc EXCEPT ![p] = "verify_lock"]
    /\ UNCHANGED <<engine_vars, inputs, lock_exists, now, stop_chaos, mid_action, chaos,
                   expire_time, enabled, applications, shutdown_called, raised,
                   exit_code>>

\* verify_lock: NotFound (or the IOError of open) is raised outside the try
\* statement of __main__: the process ends with status 1, without cleanup.
VerifyLock(p) ==
    /\ pc[p] = "verify_lock"
    /\ IF ~workspace_lock[p] \/ ~lock_exists \/ lock_content # p
       THEN /\ Exit(p, 1)
            /\ raised' = [raised EXCEPT ![p] =
                              IF ~lock_exists THEN "IOError" ELSE "NotFound"]
       ELSE /\ pc' = [pc EXCEPT ![p] = "filter_commands"]
            /\ UNCHANGED <<raised, exit_code>>
    /\ UNCHANGED <<engine_vars, inputs, lock_exists, lock_content, now, stop_chaos, mid_action,
                   workspace_lock, chaos, expire_time, enabled, applications,
                   shutdown_called>>

\* random_chaos: self.filter_commands(...).
FilterCommands(p) ==
    /\ pc[p] = "filter_commands"
    /\ LET r == filter_commands(chaos[p], request[p])
       IN  /\ chaos' = [chaos EXCEPT ![p] = r.chaos]
           /\ raised' = [raised EXCEPT ![p] = r.raised]
           /\ pc' = [pc EXCEPT ![p] = IF r.raised = "none" THEN "expire_time"
                                      ELSE "except"]
    /\ UNCHANGED <<engine_vars, inputs, lock_exists, lock_content, now, stop_chaos, mid_action,
                   workspace_lock, expire_time, enabled, applications,
                   shutdown_called, exit_code>>

\* random_chaos: expire_time = time() + run_timeout.
SetExpireTime(p) ==
    /\ pc[p] = "expire_time"
    /\ expire_time' = [expire_time EXCEPT ![p] = now + run_timeout[p]]
    /\ pc' = [pc EXCEPT ![p] = "while"]
    /\ UNCHANGED <<engine_vars, inputs, lock_exists, lock_content, now, stop_chaos, mid_action,
                   workspace_lock, chaos, enabled, applications, shutdown_called,
                   raised, exit_code>>

\* A loop test that never looks at the deadline.
WhileTestNoDeadline(p) ==
    /\ pc[p] = "while"
    /\ pc' = [pc EXCEPT ![p] = "if_stop"]
    /\ UNCHANGED <<engine_vars, inputs, lock_exists, lock_content, now, stop_chaos, mid_action,
                   workspace_lock, chaos, expire_time, enabled, applications,
                   shutdown_called, raised, exit_code>>

\* A loop test that still enters the loop at the deadline.
WhileTestNonStrict(p) ==
    /\ pc[p] = "while"
    /\ pc' = [pc EXCEPT ![p] = IF now <= expire_time[p] THEN "if_stop"
                               ELSE "after_loop"]
    /\ UNCHANGED <<engine_vars, inputs, lock_exists, lock_content, now, stop_chaos, mid_action,
                   workspace_lock, chaos, expire_time, enabled, applications,
                   shutdown_called, raised, exit_code>>

\* random_chaos: while time() < expire_time.
WhileTest(p) ==
    /\ pc[p] = "while"
    /\ pc' = [pc EXCEPT ![p] = IF now < expire_time[p] THEN "if_stop"
                               ELSE "after_loop"]
    /\ UNCHANGED <<engine_vars, inputs, lock_exists, lock_content, now, stop_chaos, mid_action,
                   workspace_lock, chaos, expire_time, enabled, applications,
                   shutdown_called, raised, exit_code>>

\* The loop's break test without dry_run.
IfStopIgnoresDryRun(p) ==
    /\ pc[p] = "if_stop"
    /\ pc' = [pc EXCEPT ![p] = IF stop_chaos[p] THEN "after_loop"
                               ELSE "run_random_chaos"]
    /\ UNCHANGED <<engine_vars, inputs, lock_exists, lock_content, now, stop_chaos, mid_action,
                   workspace_lock, chaos, expire_time, enabled, applications,
                   shutdown_called, raised, exit_code>>

\* random_chaos: if self.stop_chaos or self.dry_run: break.
IfStop(p) ==
    /\ pc[p] = "if_stop"
    /\ pc' = [pc EXCEPT ![p] = IF stop_chaos[p] \/ dry_run[p] THEN "after_loop"
                               ELSE "run_random_chaos"]
    /\ UNCHANGED <<engine_vars, inputs, lock_exists, lock_content, now, stop_chaos, mid_action,
                   workspace_lock, chaos, expire_time, enabled, applications,
                   shutdown_called, raised, exit_code>>

Min(a, b) == IF a < b THEN a ELSE b

\* run_random_chaos begins: one action of the ActiveSet is chosen and enabled,
\* or run if it is one-shot.  Choosing from an empty ActiveSet raises, and so
\* may the action.
BeginChaos(p) ==
    /\ pc[p] = "run_random_chaos"
    /\ applications' = [applications EXCEPT ![p] = Min(@ + 1, MaxApplications)]
    /\ \/ /\ chaos[p] = <<>>
          /\ raised' = [raised EXCEPT ![p] = "IndexError"]
          /\ pc' = [pc EXCEPT ![p] = "except"]
          /\ UNCHANGED enabled
       \/ \E i \in DOMAIN chaos[p] :
             \/ /\ ~OneShot(chaos[p][i])
                /\ enabled' = [enabled EXCEPT ![p] = chaos[p][i]]
                /\ pc' = [pc EXCEPT ![p] = "sleep"]
                /\ UNCHANGED raised
             \/ /\ OneShot(chaos[p][i])
                /\ pc' = [pc EXCEPT ![p] = "if_run_once"]
                /\ UNCHANGED <<enabled, raised>>
             \/ /\ raised' = [raised EXCEPT ![p] = "ActionError"]
                /\ pc' = [pc EXCEPT ![p] = "except"]
                /\ UNCHANGED enabled
    /\ UNCHANGED <<engine_vars, inputs, lock_exists, lock_content, now, stop_chaos, mid_action,
                   workspace_lock, chaos, expire_time, shutdown_called, exit_code>>

\* An application that ends without the disable.
EndChaosKeepsEnabled(p) ==
    /\ pc[p] = "sleep"
    /\ pc' = [pc EXCEPT ![p] = "if_run_once"]
    /\ UNCHANGED <<engine_vars, inputs, lock_exists, lock_content, now, stop_chaos, mid_action,
                   workspace_lock, chaos, expire_time, enabled, applications,
                   shutdown_called, raised, exit_code>>

\* run_random_chaos ends: after the enablement window the action is disabled;
\* a disable that raises leaves it enabled.
EndChaos(p) ==
    /\ pc[p] = "sleep"
    /\ \/ /\ enabled' = [enabled EXCEPT ![p] = NoAction]
          /\ pc' = [pc EXCEPT ![p] = "if_run_once"]
          /\ UNCHANGED raised
       \/ /\ raised' = [raised EXCEPT ![p] = "ActionError"]
          /\ pc' = [pc EXCEPT ![p] = "except"]
          /\ UNCHANGED enabled
    /\ UNCHANGED <<engine_vars, inputs, lock_exists, lock_content, now, stop_chaos, mid_action,
                   workspace_lock, chaos, expire_time, applications,
                   shutdown_called, exit_code>>

\* The end of an iteration without the test of run_once.
IfRunOnceIgnored(p) ==
    /\ pc[p] = "if_run_once"
    /\ pc' = [pc EXCEPT ![p] = "while"]
    /\ UNCHANGED <<engine_vars, inputs, lock_exists, lock_content, now, stop_chaos, mid_action,
                   workspace_lock, chaos, expire_time, enabled, applications,
                   shutdown_called, raised, exit_code>>

\* random_chaos: if run_once: break.
IfRunOnce(p) ==
    /\ pc[p] = "if_run_once"
    /\ pc' = [pc EXCEPT ![p] = IF run_once[p] THEN "after_loop" ELSE "while"]
    /\ UNCHANGED <<engine_vars, inputs, lock_exists, lock_content, now, stop_chaos, mid_action,
                   workspace_lock, chaos, expire_time, enabled, applications,
                   shutdown_called, raised, exit_code>>

\* random_chaos: if not self.dry_run: self.chaos_monkey.shutdown().
Shutdown(p) ==
    /\ pc[p] = "after_loop"
    /\ IF ~dry_run[p]
       THEN /\ shutdown_called' = [shutdown_called EXCEPT ![p] = TRUE]
            /\ enabled' = [enabled EXCEPT ![p] = NoAction]
       ELSE UNCHANGED <<shutdown_called, enabled>>
    /\ pc' = [pc EXCEPT ![p] = "finally"]
    /\ UNCHANGED <<engine_vars, inputs, lock_exists, lock_content, now, stop_chaos, mid_action,
                   workspace_lock, chaos, expire_time, applications, raised,
                   exit_code>>

\* An except clause with no finally clause after it.
ExceptSkipsFinally(p) ==
    /\ pc[p] = "except"
    /\ exit_code' = [exit_code EXCEPT ![p] = 1]
    /\ pc' = [pc EXCEPT ![p] = "done"]
    /\ UNCHANGED <<engine_vars, inputs, lock_exists, lock_content, now, stop_chaos, mid_action,
                   workspace_lock, chaos, expire_time, enabled, applications,
                   shutdown_called, raised>>

\* __main__: except Exception: logging.error(...); sys.exit(1).
Except(p) ==
    /\ pc[p] = "except"
    /\ exit_code' = [exit_code EXCEPT ![p] = FailureStatus]
    /\ pc' = [pc EXCEPT ![p] = "finally"]
    /\ UNCHANGED <<engine_vars, inputs, lock_exists, lock_content, now, stop_chaos, mid_action,
                   workspace_lock, chaos, expire_time, enabled, applications,
                   shutdown_called, raised>>

\* A cleanup that raises when the lock file is missing.
CleanupReraisesENOENT(p) ==
    /\ pc[p] = "finally"
    /\ IF lock_exists
       THEN /\ lock_exists' = FALSE
            /\ lock_content' = 0
            /\ UNCHANGED <<raised, exit_code>>
       ELSE /\ raised' = [raised EXCEPT ![p] = "OSError"]
            /\ exit_code' = [exit_code EXCEPT ![p] = 1]
            /\ UNCHANGED <<lock_exists, lock_content>>
    /\ pc' = [pc EXCEPT ![p] = "done"]
    /\ UNCHANGED <<engine_vars, inputs, now, stop_chaos, mid_action, workspace_lock, chaos,
                   expire_time, enabled, applications, shutdown_called>>

\* __main__: finally: runner.cleanup() -- os.unlink(lock_file), a missing file
\* is only logged -- and the process ends.
Cleanup(p) ==
    /\ pc[p] = "finally"
    /\ lock_exists' = FALSE
    /\ lock_content' = 0
    /\ pc' = [pc EXCEPT ![p] = "done"]
    /\ UNCHANGED <<engine_vars, inputs, now, stop_chaos, mid_action, workspace_lock, chaos,
                   expire_time, enabled, applications, shutdown_called, raised,
                   exit_code>>

\* sig_handler: SIGTERM or SIGINT delivered to a live process.
SigHandler(p) ==
    /\ pc[p] \notin {"not_started", "done"}
    /\ stop_chaos' = [stop_chaos EXCEPT ![p] = TRUE]
    /\ mid_action' = [mid_action EXCEPT ![p] = @ \/ pc[p] = "sleep"]
    /\ UNCHANGED <<engine_vars, inputs, lock_exists, lock_content, now, pc,
                   workspace_lock, chaos, expire_time, enabled, applications,
                   shutdown_called, raised, exit_code>>

\* The lock file is removed from outside the runners: what cleanup then meets
\* as ENOENT.
UnlinkLock ==
    /\ lock_exists
    /\ lock_exists' = FALSE
    /\ lock_content' = 0
    /\ UNCHANGED <<engine_vars, inputs, now, pc, stop_chaos, mid_action, workspace_lock,
                   chaos, expire_time, enabled, applications, shutdown_called, raised,
                   exit_code>>

InLoop(p) == pc[p] \in {"while", "if_stop", "run_random_chaos", "sleep", "if_run_once"}

\* The clock advances.  Only a runner inside the loop reads it, against its
\* deadline: a tick at any other time, or past every deadline, changes nothing
\* a runner can see.
Tick ==
    /\ \E p \in Runners : InLoop(p) /\ now < expire_time[p]
    /\ now' = now + 1
    /\ UNCHANGED <<engine_vars, inputs, lock_exists, lock_content, pc, stop_chaos, mid_action,
                   workspace_lock, chaos, expire_time, enabled, applications,
                   shutdown_called, raised, exit_code>>

Next ==
    \/ \E p \in Runners : CheckDir(p)
    \/ \E p \in Runners : OpenLock(p)
    \/ \E p \in Runners : WritePid(p)
    \/ \E p \in Runners : VerifyLock(p)
    \/ \E p \in Runners : FilterCommands(p)
    \/ \E p \in Runners : SetExpireTime(p)
    \/ \E p \in Runners : WhileTest(p)
    \/ \E p \in Runners : IfStop(p)
    \/ \E p \in Runners : BeginChaos(p)
    \/ \E p \in Runners : EndChaos(p)
    \/ \E p \in Runners : IfRunOnce(p)
    \/ \E p \in Runners : Shutdown(p)
    \/ \E p \in Runners : Except(p)
    \/ \E p \in Runners : Cleanup(p)
    \/ \E p \in Runners : SigHandler(p)
    \/ Tick

Spec == Init /\ [][Next]_vars

SpecWorkspace == InitWorkspace /\ [][Next]_vars

SpecEngine == InitSelection /\ [][NextEngine]_vars

\* The next statement of the main thread of runner p (signal handlers aside).
MainStep(p) ==
    \/ CheckDir(p) \/ OpenLock(p) \/ WritePid(p) \/ VerifyLock(p)
    \/ FilterCommands(p) \/ SetExpireTime(p) \/ WhileTest(p) \/ IfStop(p)
    \/ BeginChaos(p) \/ EndChaos(p) \/ IfRunOnce(p) \/ Shutdown(p)
    \/ Except(p) \/ Cleanup(p)

\* A process that can take its next statement eventually takes it (every
\* action application included), and the clock does not stop.
Fairness ==
    /\ \A p \in Runners : WF_vars(MainStep(p))
    /\ WF_vars(Tick)

SpecLive == Init /\ [][Next]_vars /\ Fairness

\* Two runners, with a lock file that can also disappear.
NextRelease ==
    \/ Next
    \/ UnlinkLock

SpecRelease == InitRelease /\ [][NextRelease]_vars

SpecArgs == InitArgs /\ [][ParseArgs]_vars

(***************************************************************************)
(* Selection engine: filtering (checked under SpecEngine)                  *)
(***************************************************************************)
NamesOf(filter_string) == Range(split_arg_string(filter_string))

ValidRequest(req) ==
    /\ NamesOf(req.include_group) \subseteq get_all_groups
    /\ NamesOf(req.exclude_group) \subseteq get_all_groups
    /\ NamesOf(req.include_command) \subseteq get_all_commands
    /\ NamesOf(req.exclude_command) \subseteq get_all_commands

NoInclude(req) == req.include_group = <<>> /\ req.include_command = <<>>

Filtered == call.op = "filter_commands"

\* C5: after filter_commands with a valid request, the ActiveSet holds no
\* action of an excluded group and no excluded command, and every action it
\* holds is of an included group or an included command (any registry action
\* when no include filter was given).  Stated for the engine as random_chaos
\* finds it, with an empty ActiveSet.
C5_ExcludeAfterInclude ==
    (Filtered /\ ValidRequest(call.args) /\ call.before = <<>>) =>
        \A i \in DOMAIN cm_chaos :
            /\ cm_chaos[i].group \notin NamesOf(call.args.exclude_group)
            /\ cm_chaos[i].command_str \notin NamesOf(call.args.exclude_command)
            /\ IF NoInclude(call.args)
               THEN cm_chaos[i] \in Range(Registry)
               ELSE \/ cm_chaos[i].group \in NamesOf(call.args.include_group)
                    \/ cm_chaos[i].command_str \in NamesOf(call.args.include_command)

\* C6: a filter request with an unknown name in any of its four filters is
\* rejected with the validation error and leaves the ActiveSet as it was.
C6_RejectedAtomically ==
    (Filtered /\ ~ValidRequest(call.args)) =>
        /\ call.raised = "BadRequest"
        /\ cm_chaos = call.before

\* C7: include_command leaves the ActiveSet unchanged when at least one
\* requested id is already in it, and otherwise appends the whole matching
\* subset of the registry.
C7_IncludeCommandAllOrNothing ==
    call.op = "include_command" =>
        LET requested == Range(call.args)
            matching  == SelectSeq(Registry, LAMBDA x : x.command_str \in requested)
        IN  IF \E i \in DOMAIN call.before : call.before[i].command_str \in requested
            THEN cm_chaos = call.before
            ELSE cm_chaos = call.before \o matching

\* C8: after any sequence of engine calls with valid names, and after any
\* valid filter request, every action of the ActiveSet is a registry action
\* and no command id occurs twice in it.
C8_ActiveSetIntegrity ==
    (Filtered => ValidRequest(call.args)) =>
        /\ \A i \in DOMAIN cm_chaos : cm_chaos[i] \in Range(Registry)
        /\ \A i, j \in DOMAIN cm_chaos :
              i # j => cm_chaos[i].command_str # cm_chaos[j].command_str

Remaining(req) ==
    SelectSeq(Registry,
              LAMBDA x : /\ x.group \notin NamesOf(req.exclude_group)
                         /\ x.command_str \notin NamesOf(req.exclude_command))

\* C9: a filter request without include_group and include_command first makes
\* the ActiveSet the whole registry, whatever it was: with valid excludes it
\* ends as the registry minus the excluded actions, and a request rejected at
\* its exclude filters has left it the whole registry or that minus the
\* excluded groups.
C9_DefaultIncludesAll ==
    (Filtered /\ NoInclude(call.args)) =>
        /\ ValidRequest(call.args) =>
              /\ call.raised = "none"
              /\ cm_chaos = Remaining(call.args)
        /\ NamesOf(call.args.exclude_group) \cap {"bogus"} # {} => cm_chaos = Registry
        /\ (ValidRequest(call.args) /\ call.args.exclude_group = <<>>
               /\ call.args.exclude_command = <<>>) => cm_chaos = Registry

C9_Witness ==
    /\ Filtered
    /\ NoInclude(call.args)
    /\ call.args.exclude_group = <<"net">>
    /\ call.args.exclude_command = <<>>
    /\ call.before = <<Registry[1], Registry[1], Registry[3]>>
    /\ cm_chaos = <<Registry[3]>>

\* C18: a filter request whose include_group is "all" (its other filters
\* valid, no include_command) is accepted, and the ActiveSet becomes the
\* whole registry, less what the exclude filters remove.
C18_IncludeAllAccepted ==
    (/\ Filtered
     /\ call.args.include_group = <<"all">>
     /\ call.args.include_command = <<>>
     /\ NamesOf(call.args.exclude_group) \subseteq get_all_groups
     /\ NamesOf(call.args.exclude_command) \subseteq get_all_commands) =>
        /\ call.raised = "none"
        /\ cm_chaos = Remaining(call.args)

(***************************************************************************)
(* Workspace lock (checked under SpecWorkspace)                            *)
(***************************************************************************)
\* From the exclusive create of the lock file to the unlink of cleanup.
Holding(p) ==
    pc[p] \in {"write", "verify_lock", "filter_commands", "expire_time", "while",
               "if_stop", "run_random_chaos", "sleep", "if_run_once", "after_loop",
               "except", "finally"}

\* Runner q takes the step of os.open while the lock file exists.
ConflictStep(q) == pc[q] = "open" /\ lock_exists /\ pc'[q] # "open"

\* C1: at most one runner is between its successful acquire_lock and its
\* cleanup, and an acquire_lock attempted while the lock file exists ends the
\* process with the lock-conflict exit.
C1_OneRunnerPerWorkspace ==
    /\ [](\A p, q \in Runners : (Holding(p) /\ Holding(q)) => p = q)
    /\ [][\A q \in Runners :
            ConflictStep(q) => (pc'[q] = "done" /\ exit_code'[q] = -1)]_vars

C1_Witness ==
    \E p, q \in Runners :
        /\ p # q
        /\ enabled[p] # NoAction
        /\ pc[p] = "sleep"
        /\ pc[q] = "open"

\* C2: the runner whose acquire_lock finds the lock file ends without running
\* cleanup; the lock file stays, with the content it had, which names the
\* runner holding it once that runner has written its pid.
C2_FailedAcquireLeavesLock ==
    /\ [][\A q \in Runners :
            ConflictStep(q) =>
                /\ pc'[q] = "done"
                /\ lock_exists'
                /\ lock_content' = lock_content]_vars
    /\ [](lock_exists =>
            \E p \in Runners :
                /\ Holding(p)
                /\ lock_content = IF pc[p] = "write" THEN 0 ELSE p)

C2_Witness ==
    \E p, q \in Runners :
        /\ p # q
        /\ pc[q] = "done"
        /\ exit_code[q] = -1
        /\ ~workspace_lock[q]
        /\ workspace_lock[p]
        /\ lock_exists
        /\ lock_content = p

(***************************************************************************)
(* The run of one runner (checked under Spec)                              *)
(***************************************************************************)
\* C3 (last clause): after a run that a signal reached while an action
\* application was in flight, no action is left enabled.
C3_CancelledRunLeavesNothingEnabled ==
    \A p \in Runners :
        (pc[p] = "done" /\ mid_action[p]) => enabled[p] = NoAction

\* C3 (third clause): no action application begins once the flag is set.
C3_NoApplicationBeginsAfterStop ==
    [][\A p \in Runners :
         stop_chaos[p] => ~(pc[p] = "run_random_chaos" /\ pc'[p] # pc[p])]_vars

\* C4: a dry run applies no action and does not invoke the shutdown hook,
\* whatever its timeout and filter request, and ends with the lock file removed.
C4_DryRunAppliesNothing ==
    \A p \in Runners :
        dry_run[p] =>
            /\ applications[p] = 0
            /\ enabled[p] = NoAction
            /\ ~shutdown_called[p]
            /\ (pc[p] = "done" /\ workspace_lock[p]) => ~lock_exists

C4_Witness ==
    /\ dry_run[1]
    /\ pc[1] = "done"
    /\ workspace_lock[1]
    /\ raised[1] = "none"
    /\ now < expire_time[1]
    /\ ~lock_exists

\* The failures raised after the lock was acquired.
RunFailures == {"BadRequest", "ValueError", "IndexError", "ActionError"}

\* C10: a run that raised after the lock was acquired ends with a non-zero
\* exit status and with the lock file removed.
C10_FailureStillCleansUp ==
    \A p \in Runners :
        (pc[p] = "done" /\ raised[p] \in RunFailures) =>
            /\ exit_code[p] # 0
            /\ ~lock_exists

C10_Witness ==
    /\ pc[1] = "done"
    /\ raised[1] = "ActionError"
    /\ enabled[1] # NoAction
    /\ workspace_lock[1]
    /\ exit_code[1] = 1
    /\ ~lock_exists

(***************************************************************************)
(* Failures of the run, exit statuses (checked under Spec, SpecWorkspace)  *)
(***************************************************************************)
\* C11: a non-dry run in which an action application raised has invoked the
\* shutdown hook by the time the process ends.
C11_ShutdownOnFailure ==
    \A p \in Runners :
        (pc[p] = "done" /\ ~dry_run[p] /\ raised[p] = "ActionError") =>
            shutdown_called[p]

\* The outcomes of a process that has ended.
NotADirectory(p) == pc[p] = "done" /\ ~isdir
LockConflict(p) == pc[p] = "done" /\ isdir /\ ~workspace_lock[p]
RunFailed(p) == pc[p] = "done" /\ workspace_lock[p] /\ raised[p] \in RunFailures
CleanCompletion(p) == pc[p] = "done" /\ workspace_lock[p] /\ raised[p] = "none"

\* C12: the exit status of each of the three failure outcomes is non-zero and
\* is not the status the program gives to either of the other two, and a
\* clean completion exits with 0.
C12_ExitCodesDistinct ==
    \A p \in Runners :
        /\ NotADirectory(p) =>
              exit_code[p] \notin {0, LockConflictStatus, FailureStatus}
        /\ LockConflict(p) =>
              exit_code[p] \notin {0, NotADirectoryStatus, FailureStatus}
        /\ RunFailed(p) =>
              exit_code[p] \notin {0, NotADirectoryStatus, LockConflictStatus}
        /\ CleanCompletion(p) => exit_code[p] = 0

\* Positions of __main__ from the deadline computation to the end of the loop.
Running(p) == pc[p] \in {"expire_time", "after_loop"} \/ InLoop(p)

\* C13: a run whose filter request has an unknown group or command name never
\* reaches the run loop and applies no action; it ends on the exception of
\* filter_commands, with the failure status.
C13_InvalidRequestAppliesNothing ==
    \A p \in Runners :
        ~ValidRequest(request[p]) =>
            /\ applications[p] = 0
            /\ enabled[p] = NoAction
            /\ ~Running(p)
            /\ ~shutdown_called[p]
            /\ (pc[p] = "done" /\ workspace_lock[p]) =>
                  /\ raised[p] \in {"BadRequest", "ValueError"}
                  /\ exit_code[p] = FailureStatus

C13_Witness ==
    /\ pc[1] = "done"
    /\ ~dry_run[1]
    /\ request[1].exclude_command = <<"jujud", ",", "bogus">>
    /\ raised[1] = "BadRequest"
    /\ chaos[1] = Registry
    /\ applications[1] = 0
    /\ ~lock_exists

\* Positions of __main__ before the first iteration of the loop.
BeforeLoop(p) ==
    pc[p] \in {"acquire_lock", "open", "write", "verify_lock", "filter_commands",
               "expire_time"}
        \/ (pc[p] = "while" /\ applications[p] = 0)

\* C14: a run with run_once begins at most one action application, whatever
\* its timeout and however long the application takes, and begins none when
\* the cancellation flag is set by the time the loop starts.
C14_RunOnceAppliesAtMostOne ==
    /\ [](\A p \in Runners : run_once[p] => applications[p] <= 1)
    /\ \A p \in Runners :
          []((run_once[p] /\ stop_chaos[p] /\ BeforeLoop(p)) =>
                [](applications[p] = 0))

C14_Witness ==
    /\ run_once[1]
    /\ ~stop_chaos[1]
    /\ applications[1] = 1
    /\ pc[1] = "done"
    /\ raised[1] = "none"
    /\ now < expire_time[1]
    /\ shutdown_called[1]

\* Runner p takes the step that enables an action.
EnableStep(p) == pc[p] = "run_random_chaos" /\ pc'[p] = "sleep"

\* The signal handler of runner p runs.
SignalStep(p) == stop_chaos'[p] # stop_chaos[p] \/ mid_action'[p] # mid_action[p]

\* C15: within one runner an action is enabled only while none is enabled;
\* the enabled action changes only by being disabled, which is how its
\* enablement window ends; and the signal handler moves the runner nowhere,
\* enables and disables nothing and begins no application.
C15_ApplicationsSequential ==
    [][\A p \in Runners :
         /\ EnableStep(p) => (enabled[p] = NoAction /\ enabled'[p] \in Range(chaos[p]))
         /\ (enabled[p] # NoAction /\ enabled'[p] # enabled[p]) =>
               enabled'[p] = NoAction
         /\ (pc[p] = "sleep" /\ pc'[p] = "if_run_once") => enabled'[p] = NoAction
         /\ pc[p] # "run_random_chaos" => applications'[p] = applications[p]
         /\ SignalStep(p) =>
               /\ pc'[p] = pc[p]
               /\ enabled'[p] = enabled[p]
               /\ applications'[p] = applications[p]]_vars

C15_Witness ==
    /\ pc[1] = "sleep"
    /\ applications[1] = 2
    /\ enabled[1] = Registry[2]
    /\ mid_action[1]
    /\ ~run_once[1]

\* A run with no cancellation, run_once or dry_run.
PlainRun(p) == ~stop_chaos[p] /\ ~run_once[p] /\ ~dry_run[p]

\* Runner p takes the step that begins an action application.
BeginStep(p) == pc[p] = "run_random_chaos" /\ pc'[p] # "run_random_chaos"

\* C19 as stated: an action application begins only while the current time
\* is strictly before the deadline.
C19_BeginsStrictlyBeforeDeadline ==
    [][\A p \in Runners :
         (PlainRun(p) /\ BeginStep(p)) => now < expire_time[p]]_vars

\* C19: the deadline is set once, after filtering, to the time of that moment
\* plus total_timeout; an iteration, and so an action application, is entered
\* only from a loop test that found the time strictly before the deadline; a
\* loop test at or after the deadline leaves the loop; and once an application
\* is under way or over at or after the deadline, no other begins.
C19_DeadlineGuardsIterations ==
    /\ [][\A p \in Runners :
            /\ expire_time'[p] # expire_time[p] =>
                  /\ pc[p] = "expire_time"
                  /\ raised[p] = "none"
                  /\ expire_time'[p] = now + run_timeout[p]
            /\ (pc[p] # "if_stop" /\ pc'[p] = "if_stop") =>
                  (pc[p] = "while" /\ now < expire_time[p])
            /\ (pc[p] # "run_random_chaos" /\ pc'[p] = "run_random_chaos") =>
                  pc[p] = "if_stop"
            /\ (pc[p] = "while" /\ pc'[p] # "while" /\ now >= expire_time[p]) =>
                  pc'[p] = "after_loop"]_vars
    /\ \A p \in Runners :
          []((pc[p] \in {"sleep", "if_run_once"} /\ now >= expire_time[p]) =>
                [](pc[p] # "run_random_chaos"))

C19_Witness ==
    /\ PlainRun(1)
    /\ pc[1] = "done"
    /\ raised[1] = "none"
    /\ exit_code[1] = 0
    /\ applications[1] = 2
    /\ run_timeout[1] = 2
    /\ now >= expire_time[1]
    /\ ~lock_exists

(***************************************************************************)
(* Termination (checked under SpecLive)                                    *)
(***************************************************************************)
\* C20: under Fairness, every run that has acquired and verified the lock
\* ends, with the lock file removed, however its loop ends.
C20_AcquiredRunTerminates ==
    \A p \in Runners :
        (pc[p] = "filter_commands") ~> (pc[p] = "done" /\ ~lock_exists)

C20_Witness ==
    /\ pc[1] = "done"
    /\ mid_action[1]
    /\ applications[1] = 1
    /\ shutdown_called[1]
    /\ exit_code[1] = 0
    /\ ~lock_exists

(***************************************************************************)
(* Release and re-acquire of the lock (checked under SpecRelease)          *)
(***************************************************************************)
CleanupStep(p) == pc[p] = "finally" /\ pc'[p] # "finally"

\* C16: cleanup leaves the lock file absent and raises nothing, whether it
\* found the file or not; an acquire_lock that finds no lock file creates
\* it, records the pid of the acquirer and, the file being as written,
\* passes verify_lock.
C16_ReleaseThenReacquire ==
    [][\A p \in Runners :
         /\ CleanupStep(p) =>
               /\ ~lock_exists'
               /\ pc'[p] = "done"
               /\ raised'[p] = raised[p]
               /\ exit_code'[p] = exit_code[p]
         /\ (pc[p] = "open" /\ ~lock_exists /\ pc'[p] # "open") =>
               (pc'[p] = "write" /\ lock_exists')
         /\ (pc[p] = "write" /\ pc'[p] # "write") =>
               (lock_content' = p /\ workspace_lock'[p])
         /\ (pc[p] = "verify_lock" /\ lock_exists /\ lock_content = p
                /\ pc'[p] # "verify_lock") => pc'[p] = "filter_commands"]_vars

C16_Witness ==
    \E p, q \in Runners :
        /\ p # q
        /\ pc[p] = "done"
        /\ workspace_lock[p]
        /\ exit_code[p] = 0
        /\ pc[q] = "filter_commands"
        /\ workspace_lock[q]
        /\ lock_exists
        /\ lock_content = q

(***************************************************************************)
(* The command line (checked under SpecArgs)                               *)
(***************************************************************************)
\* C17: parse_args ends with the usage error on every command line whose
\* total-timeout is given and is 0 or less, whatever the enablement-timeout
\* and with or without run-once.
C17_NonPositiveTotalTimeoutRejected ==
    (args # NotParsed /\ argv.total_timeout # None /\ argv.total_timeout[1] <= 0) =>
        args = UsageError

====
